---- MODULE Spec2Model ----
(***************************************************************************)
(* PMDI (Py-Multiple Dependency Injection): cd_patterns.py                 *)
(*                                                                         *)
(* A string is a sequence of symbols.  The symbols are the letters "c",    *)
(* "C" and "e", the newline "\n", and one symbol "_kwargs" that stands for *)
(* the seven characters of the suffix.  A class is its index in the table  *)
(* `classes`; an instance is a record of its class, the arguments it was   *)
(* constructed with and its dependency attributes.                         *)
(***************************************************************************)
EXTENDS Integers, Sequences, FiniteSets, TLC

VARIABLES classes, last

vars == <<classes, last>>

(* ------------------------------ bounds -------------------------------- *)
MaxWired == 2      \* wire_dependencies calls that return a class
MaxDeps == 2       \* bindings of one wire_dependencies call
MaxKwargs == 2     \* tagged keys of one direct instantiate_dependencies call

(* ------------------------------ strings ------------------------------- *)
KWARGS == "_kwargs"
NL == "\n"

\* str.lower() on one symbol: "C" is the only upper-case letter of the alphabet
LowerChar(ch) == IF ch = "C" THEN "c" ELSE ch

\* k.lower()
lower(s) == [i \in 1..Len(s) |-> LowerChar(s[i])]

\* f"{dep}_kwargs"
KwargsKey(dep) == dep \o <<KWARGS>>

\* the value None
None == <<"None">>

\* re.match(r"(.+)_kwargs$", kwargs_name): "." matches any symbol but the
\* newline, "$" matches at the end and also just before a final newline
_extract_prefix_before_kwargs(kwargs_name) ==
    LET n == Len(kwargs_name)
        stop == IF n > 0 /\ kwargs_name[n] = NL THEN n - 1 ELSE n
        prefix == SubSeq(kwargs_name, 1, stop - 1)
    IN  IF /\ stop >= 2
           /\ kwargs_name[stop] = KWARGS
           /\ \A i \in 1..(stop - 1) : kwargs_name[i] # NL
        THEN prefix
        ELSE None

(* ------------------------------ values -------------------------------- *)
\* an argument bundle (a dict of constructor arguments) is a set of
\* <<argument name, value>> pairs
ArgNames(bundle) == {a[1] : a \in bundle}

NoError == [kind |-> "none", cls |-> <<>>, names |-> {}, key |-> <<>>]

Error(kind, cls_name, names, key) ==
    [kind |-> kind, cls |-> cls_name, names |-> names, key |-> key]

NoAttrs == [n \in {} |-> 0]

\* setattr(self, name, value)
setattr(self, name, value) ==
    [self EXCEPT !.attrs = [n \in (DOMAIN self.attrs) \cup {name} |->
                               IF n = name THEN value ELSE self.attrs[n]]]

\* the keys of **kwargs, in the order supplied
Keys(kwargs) == {kwargs[i].key : i \in 1..Len(kwargs)}

(* --------------------------- guarded constructor ----------------------- *)
\* the guard with the set difference taken the wrong way round
MissingWiredReversed(cls) ==
    IF cls.required # {}
    THEN (DOMAIN cls.declared) \ cls.required
    ELSE {}

\* CustomizableCode.__new__: the names still missing, or {} when the guard passes
MissingWired(cls) ==
    IF cls.required # {}
    THEN cls.required \ DOMAIN cls.declared
    ELSE {}

RECURSIVE Call(_, _, _)
RECURSIVE ProcessKwargs(_, _, _, _)
RECURSIVE ProcessKwargsSwallowing(_, _, _, _)

\* the loop with the dependency's constructor wrapped in try/except: a
\* dependency that cannot be built is skipped
ProcessKwargsSwallowing(self, kwargs, i, cs) ==
    IF i > Len(kwargs)
    THEN [err |-> NoError, self |-> self]
    ELSE LET cls == cs[self.cls]
             infotag == _extract_prefix_before_kwargs(kwargs[i].key)
         IN  IF infotag = None
             THEN [err |-> Error("NamingError", cls.name, {}, kwargs[i].key),
                   self |-> self]
             ELSE IF infotag \notin DOMAIN cls.declared
             THEN [err |-> Error("UnresolvedDependencyError", cls.name, {}, infotag),
                   self |-> self]
             ELSE LET made == Call(cls.declared[infotag], kwargs[i].bundle, cs)
                  IN  IF made.err # NoError
                      THEN ProcessKwargsSwallowing(self, kwargs, i + 1, cs)
                      ELSE ProcessKwargsSwallowing(
                              setattr(self, infotag, made.ret[1]), kwargs, i + 1, cs)

\* the loop of instantiate_dependencies over kwargs.items(), from position i
ProcessKwargs(self, kwargs, i, cs) ==
    IF i > Len(kwargs)
    THEN [err |-> NoError, self |-> self]
    ELSE LET cls == cs[self.cls]
             dep_kw_name == kwargs[i].key
             dep_kwargs == kwargs[i].bundle
             infotag == _extract_prefix_before_kwargs(dep_kw_name)
         IN  IF infotag = None
             THEN [err |-> Error("NamingError", cls.name, {}, dep_kw_name),
                   self |-> self]
             ELSE IF infotag \notin DOMAIN cls.declared
             THEN [err |-> Error("UnresolvedDependencyError", cls.name, {}, infotag),
                   self |-> self]
             ELSE LET made == Call(cls.declared[infotag], dep_kwargs, cs)
                  IN  IF made.err # NoError
                      THEN [err |-> made.err, self |-> self]
                      ELSE ProcessKwargs(setattr(self, infotag, made.ret[1]),
                                         kwargs, i + 1, cs)

RECURSIVE Reversed(_)
Reversed(q) == IF q = <<>> THEN <<>> ELSE Append(Reversed(Tail(q)), Head(q))

RECURSIVE OnlyRequired(_, _)
OnlyRequired(kwargs, required) ==
    IF kwargs = <<>>
    THEN <<>>
    ELSE IF \E dep \in required : KwargsKey(dep) = Head(kwargs).key
    THEN <<Head(kwargs)>> \o OnlyRequired(Tail(kwargs), required)
    ELSE OnlyRequired(Tail(kwargs), required)

\* instantiate_dependencies with the check for the required bundles made
\* after the loop instead of before it
instantiate_dependencies_late_check(self, kwargs, cs) ==
    LET cls == cs[self.cls]
        missing_kwargs == {dep \in cls.required : KwargsKey(dep) \notin Keys(kwargs)}
        done == ProcessKwargs(self, kwargs, 1, cs)
    IN  IF done.err = NoError /\ missing_kwargs # {}
        THEN [err |-> Error("MissingArgumentsError", cls.name, missing_kwargs, <<>>),
              self |-> done.self]
        ELSE done

\* instantiate_dependencies looping over the required names only
instantiate_dependencies_required_only(self, kwargs, cs) ==
    LET cls == cs[self.cls]
        missing_kwargs == {dep \in cls.required : KwargsKey(dep) \notin Keys(kwargs)}
    IN  IF missing_kwargs # {}
        THEN [err |-> Error("MissingArgumentsError", cls.name, missing_kwargs, <<>>),
              self |-> self]
        ELSE ProcessKwargs(self, OnlyRequired(kwargs, cls.required), 1, cs)

\* instantiate_dependencies looping over the keys last to first
instantiate_dependencies_reversed(self, kwargs, cs) ==
    LET cls == cs[self.cls]
        missing_kwargs == {dep \in cls.required : KwargsKey(dep) \notin Keys(kwargs)}
    IN  IF missing_kwargs # {}
        THEN [err |-> Error("MissingArgumentsError", cls.name, missing_kwargs, <<>>),
              self |-> self]
        ELSE ProcessKwargs(self, Reversed(kwargs), 1, cs)

\* CustomizableCode.instantiate_dependencies(self, **kwargs)
instantiate_dependencies(self, kwargs, cs) ==
    LET cls == cs[self.cls]
        missing_kwargs == {dep \in cls.required : KwargsKey(dep) \notin Keys(kwargs)}
    IN  IF missing_kwargs # {}
        THEN [err |-> Error("MissingArgumentsError", cls.name, missing_kwargs, <<>>),
              self |-> self]
        ELSE ProcessKwargs(self, kwargs, 1, cs)

\* cls(**bundle): __new__, then the binding of the arguments to __init__,
\* then the body of __init__.  ret is the instance returned (<<>> when the
\* call raised), self the object as the call left it (<<>> when none was made)
Call(ci, bundle, cs) ==
    LET cls == cs[ci]
        fresh == [cls |-> ci, args |-> bundle, attrs |-> NoAttrs]
    IN  IF cls.kind = "component" /\ MissingWired(cls) # {}
        THEN [err |-> Error("ConfigurationError", cls.name, MissingWired(cls), <<>>),
              init_ran |-> FALSE, self |-> <<>>, ret |-> <<>>]
        ELSE IF ArgNames(bundle) # cls.params
        THEN [err |-> Error("TypeError", cls.name, {}, <<>>),
              init_ran |-> FALSE, self |-> <<fresh>>, ret |-> <<>>]
        ELSE IF cls.kind = "plain"
        THEN [err |-> NoError, init_ran |-> TRUE, self |-> <<fresh>>, ret |-> <<fresh>>]
        ELSE LET done == instantiate_dependencies(fresh, cls.init_kwargs, cs)
             IN  [err |-> done.err, init_ran |-> TRUE, self |-> <<done.self>>,
                  ret |-> IF done.err = NoError THEN <<done.self>> ELSE <<>>]

(* ------------------------------ wiring -------------------------------- *)
RECURSIVE DictOf(_, _)
\* {k.lower(): v for k, v in dependencies.items()}: a later item replaces an
\* earlier one with the same lowered key
DictOf(dependencies, n) ==
    IF n = 0
    THEN [k \in {} |-> 0]
    ELSE LET before == DictOf(dependencies, n - 1)
             key == lower(dependencies[n].name)
         IN  [k \in (DOMAIN before) \cup {key} |->
                 IF k = key THEN dependencies[n].cls ELSE before[k]]

\* the class wire_dependencies builds: type(name, (base_cls,), {}) with
\* declared_dependencies attached; everything else is inherited from base_cls
NewClass(base, dependencies, cs) ==
    [cs[base] EXCEPT !.name = cs[base].name \o <<"Wired">>,
                     !.base = base,
                     !.declared = DictOf(dependencies, Len(dependencies))]

\* wiring that attaches declared_dependencies to base_cls as well
wire_dependencies_on_base(base, dependencies, cs) ==
    LET new_cls == NewClass(base, dependencies, cs)
        shared == [cs EXCEPT ![base].declared = new_cls.declared]
        missing == cs[base].required \ DOMAIN new_cls.declared
    IN  IF missing # {}
        THEN [err |-> Error("ConfigurationError", cs[base].name, missing, <<>>),
              new_cls |-> new_cls, classes |-> shared, ret |-> 0]
        ELSE [err |-> NoError, new_cls |-> new_cls,
              classes |-> Append(shared, new_cls), ret |-> Len(cs) + 1]

\* wire_dependencies(base_cls, **dependencies)
wire_dependencies(base, dependencies, cs) ==
    LET new_cls == NewClass(base, dependencies, cs)
        required == cs[base].required
        missing == required \ DOMAIN new_cls.declared
    IN  IF missing # {}
        THEN [err |-> Error("ConfigurationError", cs[base].name, missing, <<>>),
              new_cls |-> new_cls, classes |-> cs, ret |-> 0]
        ELSE [err |-> NoError, new_cls |-> new_cls,
              classes |-> Append(cs, new_cls), ret |-> Len(cs) + 1]

(* --------------------------- the program's classes --------------------- *)
C_ == <<"c">>
UC == <<"C">>
E_ == <<"e">>

NoBundle == {}
HpBundle == {<<"hp", 95>>}
BundlePool == {NoBundle, HpBundle}

Plain(name, params) ==
    [name |-> <<name>>, kind |-> "plain", base |-> 0, required |-> {},
     declared |-> [k \in {} |-> 0], init_kwargs |-> <<>>, params |-> params]

\* showcase_injection.CylinderClass: no __init__, takes no arguments
CylinderClass == Plain("CylinderClass", {})

\* showcase_injection.BumperClass: __init__(self, hp)
BumperClass == Plain("BumperClass", {"hp"})

Bundle(key, bundle) == [key |-> key, bundle |-> bundle]

\* the required_dependencies a base class may declare
RequiredPool == {{}, {C_}, {UC}, {C_, E_}, {UC, E_}}

\* the bundles the __init__ of a base class may pass to instantiate_dependencies
InitPool ==
    { <<>>,
      <<Bundle(KwargsKey(C_), NoBundle)>>,
      <<Bundle(KwargsKey(UC), NoBundle)>>,
      <<Bundle(KwargsKey(E_), HpBundle), Bundle(KwargsKey(C_), NoBundle)>> }

\* class Base(CustomizableCode): required_dependencies = required;
\* def __init__(self): self.instantiate_dependencies(**init_kwargs)
Component(required, init_kwargs) ==
    [name |-> <<"Base">>, kind |-> "component", base |-> 0, required |-> required,
     declared |-> [k \in {} |-> 0], init_kwargs |-> init_kwargs, params |-> {}]

BaseDefs == {Component(r, k) : r \in RequiredPool, k \in InitPool}

(* ------------------------------ inputs -------------------------------- *)
DepNames == {C_, UC, E_}

\* tagged keys: well formed, without the suffix, with an empty name, with a
\* newline after the suffix
KeyPool == {KwargsKey(C_), KwargsKey(UC), KwargsKey(E_), C_, <<KWARGS>>,
            KwargsKey(E_) \o <<NL>>}

\* the classes of the table that are components (subclasses of CustomizableCode)
Components(cs) == {i \in 1..Len(cs) : cs[i].kind = "component"}

Binding(name, cls) == [name |-> name, cls |-> cls]

\* **dependencies: at most n bindings, no keyword twice, each value one of
\* the classes 1..v
RECURSIVE DepSeqs(_, _)
DepSeqs(n, v) ==
    IF n = 0
    THEN {<<>>}
    ELSE LET shorter == DepSeqs(n - 1, v)
         IN  shorter \cup
             UNION { { Append(q, Binding(k, c)) :
                          k \in DepNames \ {q[i].name : i \in 1..Len(q)},
                          c \in 1..v } : q \in shorter }

\* **kwargs: at most n tagged keys, no key twice, each with a bundle
RECURSIVE KwargSeqs(_)
KwargSeqs(n) ==
    IF n = 0
    THEN {<<>>}
    ELSE LET shorter == KwargSeqs(n - 1)
         IN  shorter \cup
             UNION { { Append(q, Bundle(k, b)) :
                          k \in KeyPool \ Keys(q),
                          b \in BundlePool } : q \in shorter }

NumPlain == Cardinality({CylinderClass, BumperClass})

\* the wiring calls open when the table holds v classes
DepPool == [v \in 1..(NumPlain + 1 + MaxWired) |-> DepSeqs(MaxDeps, v)]

\* the direct calls of instantiate_dependencies
KwargPool == KwargSeqs(MaxKwargs)

(* ------------------------------ the state ------------------------------ *)
\* what the last call was, what it was given and how it ended
Idle ==
    [op |-> "none", cls |-> 0, dependencies |-> <<>>, kwargs |-> <<>>,
     args |-> {}, err |-> NoError, init_ran |-> FALSE, before |-> <<>>,
     self |-> <<>>, ret |-> <<>>, new_cls |-> <<>>, ret_cls |-> 0]

Init ==
    /\ \E base \in BaseDefs : classes = <<CylinderClass, BumperClass, base>>
    /\ last = Idle

NumWired(cs) == Cardinality({i \in 1..Len(cs) : cs[i].base # 0})

\* new = wire_dependencies(base_cls, **dependencies)
Wire(base, dependencies) ==
    /\ NumWired(classes) < MaxWired
    /\ LET r == wire_dependencies(base, dependencies, classes)
       IN  /\ classes' = r.classes
           /\ last' = [Idle EXCEPT !.op = "wire", !.cls = base,
                                   !.dependencies = dependencies,
                                   !.err = r.err, !.new_cls = <<r.new_cls>>,
                                   !.ret_cls = r.ret]

\* obj = cls(**args)
Construct(ci, args) ==
    /\ LET r == Call(ci, args, classes)
       IN  last' = [Idle EXCEPT !.op = "construct", !.cls = ci, !.args = args,
                                !.err = r.err, !.init_ran = r.init_ran,
                                !.self = r.self, !.ret = r.ret]
    /\ UNCHANGED classes

\* the object a constructor has just returned to the caller, if any
Held == IF last.op = "construct" THEN last.ret ELSE <<>>

\* obj = cls(**args); obj.instantiate_dependencies(**kwargs): the second statement
Instantiate(kwargs) ==
    /\ Held # <<>>
    /\ LET r == instantiate_dependencies(Held[1], kwargs, classes)
       IN  last' = [Idle EXCEPT !.op = "instantiate", !.cls = Held[1].cls,
                                !.kwargs = kwargs, !.err = r.err,
                                !.init_ran = TRUE, !.before = Held,
                                !.self = <<r.self>>,
                                !.ret = <<>>]
    /\ UNCHANGED classes

Next ==
    \/ \E base \in Components(classes), d \in DepPool[Len(classes)] :
          Wire(base, d)
    \/ \E ci \in Components(classes), args \in BundlePool : Construct(ci, args)

Spec == Init /\ [][Next]_vars

\* the wiring calls of one keyword or none, open when the table holds v
\* classes: enough to wire siblings of one base and chains of components
ChainPool == [v \in 1..(NumPlain + 1 + MaxWired) |->
                 {<<>>} \cup {<<Binding(k, c)>> : k \in DepNames, c \in 1..v}]

\* a program that wires variants and chains of its base class and
\* constructs them
NextCompose ==
    \/ \E base \in Components(classes), d \in ChainPool[Len(classes)] :
          Wire(base, d)
    \/ \E ci \in Components(classes), args \in BundlePool : Construct(ci, args)

SpecCompose == Init /\ [][NextCompose]_vars

\* a program that wires its base class once, with plain classes, when the
\* module is loaded (as showcase_injection does), and then constructs objects
\* and calls instantiate_dependencies on them
InitInst ==
    /\ \E base \in BaseDefs, d \in DepPool[NumPlain] :
          classes = wire_dependencies(NumPlain + 1, d,
                                      <<CylinderClass, BumperClass, base>>).classes
    /\ last = Idle

NextInst ==
    \/ \E ci \in Components(classes), args \in BundlePool : Construct(ci, args)
    \/ \E kw \in KwargPool : Instantiate(kw)

SpecInst == InitInst /\ [][NextInst]_vars

(* ======================= properties of the guard ====================== *)
\* an instance and every instance reachable from it through attributes
RECURSIVE Instances(_)
Instances(obj) ==
    {obj} \cup UNION {Instances(obj.attrs[n]) : n \in DOMAIN obj.attrs}

\* every object the last call made, returned or not
Made == UNION {Instances(last.self[i]) : i \in 1..Len(last.self)}

Unwired(cls) == cls.required \ DOMAIN cls.declared

\* C1: a construction attempt on a component class passes the guard exactly
\* when none of its required names lacks a registry entry (always, when it
\* requires nothing); otherwise it raises ConfigurationError naming the class
\* and the missing names before __init__ runs and without making an object;
\* no object of a class with a required name unregistered exists
C1_GuardedConstruction ==
    /\ last.op = "construct" =>
          LET cls == classes[last.cls]
          IN  IF Unwired(cls) = {}
              THEN /\ last.self # <<>>
                   /\ last.err.kind = "ConfigurationError" => last.init_ran
              ELSE /\ last.err = Error("ConfigurationError", cls.name,
                                       Unwired(cls), <<>>)
                   /\ ~last.init_ran
                   /\ last.self = <<>>
                   /\ last.ret = <<>>
    /\ \A obj \in Made : Unwired(classes[obj.cls]) = {}

\* a base class that requires names is constructed with no wiring and is refused
C1_Witness ==
    /\ last.op = "construct"
    /\ classes[last.cls].base = 0
    /\ classes[last.cls].required # {}
    /\ NumWired(classes) > 0
    /\ last.err.kind = "ConfigurationError"
    /\ ~last.init_ran

(* ======================== properties of wiring ======================== *)
\* the keywords of a wiring call, as written
Supplied(dependencies) == {dependencies[i].name : i \in 1..Len(dependencies)}

\* a set of names in canonical (lower-case) form
Canonical(names) == {lower(n) : n \in names}

\* the class the last wiring call built, returned or not
Built == last.new_cls[1]

\* C2: a wiring call whose keywords are a strict superset of the base's
\* required names returns a class that passes the guard and whose registry
\* holds the supplied bindings under their normalized names: its names are
\* the normalized keywords, no more and no fewer, and each entry is a binding
\* that was supplied for its name
C2_SupersetWiring ==
    (/\ last.op = "wire"
     /\ classes[last.cls].required \subseteq Supplied(last.dependencies)
     /\ classes[last.cls].required # Supplied(last.dependencies))
    => /\ last.err = NoError
       /\ last.ret_cls \in 1..Len(classes)
       /\ Unwired(classes[last.ret_cls]) = {}
       /\ DOMAIN classes[last.ret_cls].declared
             = Canonical(Supplied(last.dependencies))
       /\ \A k \in DOMAIN classes[last.ret_cls].declared :
             \E i \in 1..Len(last.dependencies) :
                /\ lower(last.dependencies[i].name) = k
                /\ classes[last.ret_cls].declared[k] = last.dependencies[i].cls

\* C3: a wiring call that leaves a required name unsupplied raises
\* ConfigurationError listing exactly the required names not supplied, and
\* the class it built is neither returned nor entered anywhere it could be
\* constructed from
C3_IncompleteWiring ==
    (/\ last.op = "wire"
     /\ ~(Canonical(classes[last.cls].required)
             \subseteq Canonical(Supplied(last.dependencies))))
    => /\ last.err.kind = "ConfigurationError"
       /\ last.err.names =
             {r \in classes[last.cls].required :
                 lower(r) \notin Canonical(Supplied(last.dependencies))}
       /\ last.ret_cls = 0
       /\ \A i \in 1..Len(classes) : classes[i] # Built
       /\ Unwired(Built) # {}

\* the bare name of a well-formed tagged key
BareName(key) == SubSeq(key, 1, Len(key) - 1)

\* C7: names are case-insensitive: a wiring call that supplies every required
\* name in some spelling succeeds, and a bundle whose name matches a registry
\* entry in some spelling resolves to it
C7_CaseInsensitive ==
    /\ (/\ last.op = "wire"
        /\ Canonical(classes[last.cls].required)
              \subseteq Canonical(Supplied(last.dependencies)))
       => /\ last.err = NoError
          /\ last.ret_cls \in 1..Len(classes)
    /\ (/\ last.op = "construct"
        /\ last.init_ran
        /\ \A i \in 1..Len(classes[last.cls].init_kwargs) :
              lower(BareName(classes[last.cls].init_kwargs[i].key))
                 \in Canonical(DOMAIN classes[last.cls].declared))
       => last.err.kind \notin {"MissingArgumentsError", "UnresolvedDependencyError"}

\* no call changes the registry of a class that exists
RegistriesKept ==
    \A i \in 1..Len(classes) :
       /\ i <= Len(classes')
       /\ classes'[i].declared = classes[i].declared

\* each dependency attribute of a constructed instance is an instance of the
\* class its own class was wired with for that name
OwnWiring ==
    (last.op = "construct" /\ last.ret # <<>>)
    => \A x \in DOMAIN last.ret[1].attrs :
          last.ret[1].attrs[x].cls = classes[last.cls].declared[x]

\* C4: registries are write-once and isolated: no wiring, construction or
\* instantiation changes the registry of the base or of any class wired
\* before, so each variant's instances hold the classes of their own wiring
C4_RegistriesWriteOnce == [][RegistriesKept /\ OwnWiring']_vars

\* two variants of one base bind one name to different classes, and the
\* earlier variant is constructed after the later one was wired
C4_Witness ==
    /\ last.op = "construct"
    /\ last.ret # <<>>
    /\ \E j \in 1..Len(classes) :
          /\ j > last.cls
          /\ classes[j].base = classes[last.cls].base
          /\ classes[j].base # 0
          /\ \E x \in DOMAIN last.ret[1].attrs :
                /\ x \in DOMAIN classes[j].declared
                /\ classes[j].declared[x] # classes[last.cls].declared[x]

(* ====================== properties of composition ===================== *)
IsComponent(ci) == classes[ci].kind = "component"

\* C9: when a binding's class D is itself a component, constructing the outer
\* class runs D's guarded construction: on success the attribute is what
\* constructing D yields, a D instance with D's own dependencies; when D is
\* not fully wired the outer construction yields no instance, and D's
\* ConfigurationError is the error the caller sees
C9_TransitiveComposition ==
    last.op = "construct" =>
       LET cls == classes[last.cls]
           kw == cls.init_kwargs
       IN  /\ last.ret # <<>> =>
                \A x \in DOMAIN last.ret[1].attrs :
                   LET D == cls.declared[x]
                       dep == last.ret[1].attrs[x]
                   IN  IsComponent(D) =>
                          /\ Unwired(classes[D]) = {}
                          /\ dep.cls = D
                          /\ Call(D, dep.args, classes).ret = <<dep>>
           /\ (last.init_ran /\ last.err.kind # "MissingArgumentsError") =>
                \A i \in 1..Len(kw) :
                   LET x == BareName(kw[i].key)
                   IN  (/\ x \in DOMAIN cls.declared
                        /\ IsComponent(cls.declared[x])
                        /\ Unwired(classes[cls.declared[x]]) # {})
                       => /\ last.ret = <<>>
                          /\ i = 1 =>
                                last.err = Error("ConfigurationError",
                                                 classes[cls.declared[x]].name,
                                                 Unwired(classes[cls.declared[x]]),
                                                 <<>>)

\* an outer class bound to a wired component is constructed, and its
\* attribute holds that component's instance with a dependency of its own
C9_Witness ==
    /\ last.op = "construct"
    /\ last.ret # <<>>
    /\ \E x \in DOMAIN last.ret[1].attrs :
          /\ IsComponent(classes[last.cls].declared[x])
          /\ classes[classes[last.cls].declared[x]].base # 0
          /\ DOMAIN last.ret[1].attrs[x].attrs # {}

(* ================ properties of instantiate_dependencies ============== *)
\* the required names for which a call supplies no "<name>_kwargs" bundle
Lacking(cls, kwargs) ==
    {n \in cls.required : ~\E i \in 1..Len(kwargs) : kwargs[i].key = n \o <<KWARGS>>}

\* C5: a call that lacks the bundle of a required name raises
\* MissingArgumentsError listing every such name, whatever else is wrong with
\* the keys supplied, and attaches nothing
C5_MissingBundlesFirst ==
    (last.op = "instantiate" /\ Lacking(classes[last.cls], last.kwargs) # {})
    => /\ last.err = Error("MissingArgumentsError", classes[last.cls].name,
                           Lacking(classes[last.cls], last.kwargs), <<>>)
       /\ last.self = last.before

\* a required bundle is missing from a call whose first key is malformed and
\* whose second names a dependency that was never wired
C5_Witness ==
    /\ last.op = "instantiate"
    /\ Lacking(classes[last.cls], last.kwargs) # {}
    /\ Len(last.kwargs) = 2
    /\ last.kwargs[1].key = C_
    /\ _extract_prefix_before_kwargs(last.kwargs[2].key)
          \notin DOMAIN classes[last.cls].declared \cup {None}

\* the names the tagged keys of a call decompose to
Tagged(kwargs) ==
    {_extract_prefix_before_kwargs(kwargs[i].key) : i \in 1..Len(kwargs)}

\* the bundles a call supplies for a name
BundlesFor(kwargs, x) ==
    {kwargs[i].bundle : i \in {j \in 1..Len(kwargs) :
                                  _extract_prefix_before_kwargs(kwargs[j].key) = x}}

\* each attribute is an instance of the class bound to its name, constructed
\* with the bundle supplied for it
AttributesAsWired(obj, cls, kwargs) ==
    \A x \in DOMAIN obj.attrs :
       /\ x \in DOMAIN cls.declared
       /\ obj.attrs[x].cls = cls.declared[x]
       /\ obj.attrs[x].args \in BundlesFor(kwargs, x)

WellFormed(key) == Len(key) >= 2 /\ key[Len(key)] = KWARGS

\* what the key at position i of a call comes to, by the rules of C8
Verdict(cls, kwargs, i) ==
    IF ~WellFormed(kwargs[i].key)
    THEN Error("NamingError", cls.name, {}, kwargs[i].key)
    ELSE IF BareName(kwargs[i].key) \notin DOMAIN cls.declared
    THEN Error("UnresolvedDependencyError", cls.name, {}, BareName(kwargs[i].key))
    ELSE Call(cls.declared[BareName(kwargs[i].key)], kwargs[i].bundle, classes).err

\* C8: once the required bundles are all there, a key not of the form
\* "<non-empty name>_kwargs" raises NamingError naming the key; a well-formed
\* key whose name is not in the registry raises UnresolvedDependencyError
\* naming it and the class; any other key has an instance of the registered
\* class built from its bundle and attached under its name, whatever was
\* attached there before
C8_KeyClassification ==
    (last.op = "instantiate" /\ Lacking(classes[last.cls], last.kwargs) = {})
    => LET cls == classes[last.cls]
           kw == last.kwargs
           stops == {i \in 1..Len(kw) : Verdict(cls, kw, i) # NoError}
       IN  IF stops = {}
           THEN /\ last.err = NoError
                /\ \A i \in 1..Len(kw) :
                      LET x == BareName(kw[i].key)
                      IN  /\ x \in DOMAIN last.self[1].attrs
                          /\ last.self[1].attrs[x].cls = cls.declared[x]
                          /\ last.self[1].attrs[x].args = kw[i].bundle
           ELSE \E k \in stops :
                   /\ \A j \in stops : k <= j
                   /\ last.err = Verdict(cls, kw, k)

\* the first position of a call at which the loop stops
RECURSIVE StopsAt(_, _, _)
StopsAt(cls, kwargs, i) ==
    IF i > Len(kwargs)
    THEN i
    ELSE LET x == _extract_prefix_before_kwargs(kwargs[i].key)
         IN  IF \/ x = None
                \/ x \notin DOMAIN cls.declared
                \/ Call(cls.declared[x], kwargs[i].bundle, classes).err # NoError
             THEN i
             ELSE StopsAt(cls, kwargs, i + 1)

\* the attributes of obj once the first n keys of a call are attached
RECURSIVE AttachedUpTo(_, _, _, _)
AttachedUpTo(obj, cls, kwargs, n) ==
    IF n = 0
    THEN obj.attrs
    ELSE LET before == AttachedUpTo(obj, cls, kwargs, n - 1)
             x == _extract_prefix_before_kwargs(kwargs[n].key)
             made == Call(cls.declared[x], kwargs[n].bundle, classes).ret[1]
         IN  [a \in (DOMAIN before) \cup {x} |-> IF a = x THEN made ELSE before[a]]

\* C10: the keys are processed in the order supplied and a failure undoes
\* nothing: when the loop stops at key k with NamingError,
\* UnresolvedDependencyError or an error of a dependency's constructor, the
\* owner carries the attachments of the keys before k and none of k or later
C10_PartialAttachment ==
    (/\ last.op = "instantiate"
     /\ last.err.kind \notin {"none", "MissingArgumentsError"})
    => LET cls == classes[last.cls]
           k == StopsAt(cls, last.kwargs, 1)
       IN  /\ k <= Len(last.kwargs)
           /\ last.self[1].attrs
                 = AttachedUpTo(last.before[1], cls, last.kwargs, k - 1)
           /\ last.self[1].cls = last.before[1].cls

\* a call stops at its second key after its first attached a dependency the
\* object did not have
C10_Witness ==
    /\ last.op = "instantiate"
    /\ last.err.kind \in {"NamingError", "UnresolvedDependencyError", "TypeError"}
    /\ Len(last.kwargs) = 2
    /\ DOMAIN last.self[1].attrs # DOMAIN last.before[1].attrs
====
